---- MODULE Spec2Model ----
(***************************************************************************)
(* Book suggestion app (Book_suggestion_App_Sreeja.py): the startup        *)
(* pipeline (two fetch_books calls, concat, drop_duplicates, MainWindow)   *)
(* and the two button handlers apply_filter and suggest_random.            *)
(*                                                                         *)
(* A Python string is a tuple of one-character strings, so that join,      *)
(* split, isdigit, int() and the regular-expression search of              *)
(* Series.str.contains are computed, not assumed.  An optional JSON field  *)
(* is <<>> when absent and <<v>> when present.                             *)
(***************************************************************************)
EXTENDS Integers, Sequences, FiniteSets, TLC

VARIABLES
    pc,           \* where the process is: see Init and the actions
    requests,     \* per subject, the HTTP requests issued for it (line 41)
    ended,        \* per subject, how its request ended
    items,        \* per subject, the raw items of its response (line 47)
    df_fiction,   \* line 240
    df_history,   \* line 241
    df_all,       \* lines 243 and 253
    df,           \* self.df of the main window (line 99)
    combo_genre,  \* the items of the genre selector (line 124)
    text_area,    \* the text of the result area
    msg           \* the text of the last message box shown

vars == <<pc, requests, ended, items, df_fiction, df_history, df_all, df,
          combo_genre, text_area, msg>>

Subjects == {"Fiction", "History"}

\* The longest item list a response of the remote service carries in the model.
MaxItems == 2

(***************************************************************************)
(* Strings                                                                 *)
(***************************************************************************)
UpperCase == <<"A","B","C","D","E","F","G","H","I","J","K","L","M",
               "N","O","P","Q","R","S","T","U","V","W","X","Y","Z">>

LowerCase == <<"a","b","c","d","e","f","g","h","i","j","k","l","m",
               "n","o","p","q","r","s","t","u","v","w","x","y","z">>

Digits == <<"0","1","2","3","4","5","6","7","8","9">>

\* the characters of the model's strings, by increasing code point
CodeOrder ==
    <<" ", "(", ")", "+", ",", "-", ".">> \o Digits \o UpperCase \o LowerCase

Range(s) == {s[i] : i \in 1..Len(s)}

\* dict.get(key, default)
Get(opt, default) == IF Len(opt) = 0 THEN default ELSE opt[1]

\* sep.join(list)
RECURSIVE Join(_, _)
Join(sep, list) ==
    IF Len(list) = 0 THEN <<>>
    ELSE IF Len(list) = 1 THEN list[1]
    ELSE list[1] \o sep \o Join(sep, Tail(list))

\* whether sep occurs in s at position i
OccursAt(s, sep, i) ==
    /\ i >= 1
    /\ i + Len(sep) - 1 <= Len(s)
    /\ \A k \in 1..Len(sep) : s[i + k - 1] = sep[k]

\* s.split(sep)[0]: the part of s before the first occurrence of sep
SplitFirst(s, sep) ==
    LET hits == {i \in 1..Len(s) : OccursAt(s, sep, i)}
    IN  IF hits = {} THEN s
        ELSE SubSeq(s, 1, (CHOOSE i \in hits : \A j \in hits : i <= j) - 1)

\* str.isdigit() on ASCII text
IsDigit(s) == Len(s) > 0 /\ \A i \in 1..Len(s) : s[i] \in Range(Digits)

DigitValue(c) == (CHOOSE i \in 1..10 : Digits[i] = c) - 1

\* int(s) for a string of decimal digits
RECURSIVE DigitsToInt(_)
DigitsToInt(s) ==
    IF Len(s) = 0 THEN 0
    ELSE 10 * DigitsToInt(SubSeq(s, 1, Len(s) - 1)) + DigitValue(s[Len(s)])

\* str(n) for an integer n
RECURSIVE NatToStr(_)
NatToStr(n) ==
    IF n < 10 THEN <<Digits[n + 1]>>
    ELSE Append(NatToStr(n \div 10), Digits[(n % 10) + 1])

IntToStr(n) == IF n < 0 THEN <<"-">> \o NatToStr(-n) ELSE NatToStr(n)

\* the rows of s at the indices in keep, in order
RowsAt(s, keep) ==
    LET f[i \in 0..Len(s)] ==
            IF i = 0 THEN <<>>
            ELSE IF i \in keep THEN Append(f[i - 1], s[i]) ELSE f[i - 1]
    IN  f[Len(s)]

(***************************************************************************)
(* fetch_books                                                             *)
(***************************************************************************)
UnknownTitle == <<"U","n","k","n","o","w","n"," ","T","i","t","l","e">>

UnknownAuthor == <<"U","n","k","n","o","w","n"," ","A","u","t","h","o","r">>

Uncategorized == <<"U","n","c","a","t","e","g","o","r","i","z","e","d">>

CommaSpace == <<",", " ">>

\* lines 55-63 and 70: the year of a publishedDate, 0 when there is none
YearOf(published) ==
    LET year == IF Len(published) > 0
                THEN LET y == SplitFirst(published, <<"-">>)
                     IN  IF IsDigit(y) THEN <<DigitsToInt(y)>> ELSE <<>>
                ELSE <<>>
    IN  IF Len(year) > 0 /\ year[1] # 0 THEN year[1] ELSE 0

\* line 51: item.get('volumeInfo', {})
VolumeInfo(item) ==
    Get(item.volumeInfo,
        [title |-> <<>>, authors |-> <<>>, publishedDate |-> <<>>,
         categories |-> <<>>, ratingsCount |-> <<>>])

\* lines 51-72: the row appended to books for one raw item
BookOf(item) ==
    LET info == VolumeInfo(item)
    IN  [Title           |-> Get(info.title, UnknownTitle),
         Authors         |-> Join(CommaSpace, Get(info.authors, <<UnknownAuthor>>)),
         Genre           |-> Join(CommaSpace, Get(info.categories, <<Uncategorized>>)),
         PublicationYear |-> YearOf(Get(info.publishedDate, <<>>)),
         Ratings         |-> Get(info.ratingsCount, 0)]

Books(raw) == [i \in 1..Len(raw) |-> BookOf(raw[i])]

\* drop_duplicates as keep='last' would do it
DropDuplicatesKeepLast(rows) ==
    RowsAt(rows, {i \in 1..Len(rows) :
                    \A j \in (i + 1)..Len(rows) :
                        ~(rows[j].Title = rows[i].Title
                          /\ rows[j].Authors = rows[i].Authors)})

\* DataFrame.drop_duplicates(subset=['Title','Authors']), keep='first'
DropDuplicates(rows) ==
    RowsAt(rows, {i \in 1..Len(rows) :
                    \A j \in 1..(i - 1) :
                        ~(rows[j].Title = rows[i].Title
                          /\ rows[j].Authors = rows[i].Authors)})

\* line 80: df[df['Title'] != 'Unknown Title']
DropUnknownTitle(rows) == SelectSeq(rows, LAMBDA row : row.Title # UnknownTitle)

\* lines 82-83: pd.to_numeric(col, errors='coerce').fillna(0).astype(int); both
\* columns hold Python ints by then (lines 65 and 70), which it leaves as they are
ToNumericInt(rows) ==
    [i \in 1..Len(rows) |->
        [rows[i] EXCEPT !.PublicationYear = @ + 0, !.Ratings = @ + 0]]

\* lines 77-84: the frame fetch_books returns for a non-empty item list
CleanFrame(raw) == ToNumericInt(DropUnknownTitle(DropDuplicates(Books(raw))))

\* lines 37-45: how the one request of a fetch_books call ends.  A body that is
\* not JSON makes response.json() raise requests' JSONDecodeError, which is a
\* RequestException from requests 2.27 on (jsonIsRequestError) and a plain
\* ValueError before
RequestError(resp, jsonIsRequestError) ==
    IF resp.kind \in {"network", "status"} THEN "RuntimeError"
    ELSE IF resp.kind = "malformed"
         THEN IF jsonIsRequestError THEN "RuntimeError" ELSE "ValueError"
         ELSE "none"

\* fetch_books returning an empty frame for an empty item list
fetch_books_EmptyFrame(resp, jsonIsRequestError) ==
    IF RequestError(resp, jsonIsRequestError) # "none"
    THEN [raised |-> RequestError(resp, jsonIsRequestError), frame |-> <<>>]
    ELSE [raised |-> "none", frame |-> CleanFrame(resp.items)]

\* lines 32-84: what a fetch_books call returns or raises.  With no items the
\* frame of line 77 has no columns and line 79 or 80 raises KeyError
fetch_books(resp, jsonIsRequestError) ==
    IF RequestError(resp, jsonIsRequestError) # "none"
    THEN [raised |-> RequestError(resp, jsonIsRequestError), frame |-> <<>>]
    ELSE IF Len(resp.items) = 0
         THEN [raised |-> "KeyError", frame |-> <<>>]
         ELSE [raised |-> "none", frame |-> CleanFrame(resp.items)]

(***************************************************************************)
(* The remote service: the raw items it may return                         *)
(***************************************************************************)
Info(t, a, p, c, r) ==
    [volumeInfo |-> <<[title |-> t, authors |-> a, publishedDate |-> p,
                       categories |-> c, ratingsCount |-> r]>>]

Catalog ==
    { \* "T1" by Ann and Bo, 2015-03-04, Law, 5 ratings
      Info(<< <<"T","1">> >>, << << <<"A","n","n">>, <<"B","o">> >> >>,
           << <<"2","0","1","5","-","0","3","-","0","4">> >>,
           << << <<"L","a","w">> >> >>, <<5>>),
      \* "T1" by "Ann, Bo" (one name), circa 1990, Law (US), no ratingsCount
      Info(<< <<"T","1">> >>, << << <<"A","n","n",","," ","B","o">> >> >>,
           << <<"c","i","r","c","a"," ","1","9","9","0">> >>,
           << << <<"L","a","w"," ","(","U","S",")">> >> >>, <<>>),
      \* an item without volumeInfo
      [volumeInfo |-> <<>>],
      \* "T2", empty authors list, empty date, empty categories list, -1 ratings
      Info(<< <<"T","2">> >>, << <<>> >>, << <<>> >>, << <<>> >>, <<-1>>),
      \* "T2", no authors, 1990, categories "Art (" and "law", 1 rating
      Info(<< <<"T","2">> >>, <<>>, << <<"1","9","9","0">> >>,
           << << <<"A","r","t"," ","(">>, <<"l","a","w">> >> >>, <<1>>) }

SeqsUpTo(S, n) == UNION {[1..k -> S] : k \in 0..n}

Responses ==
    {[kind |-> "ok", items |-> its] : its \in SeqsUpTo(Catalog, MaxItems)}
    \cup {[kind |-> k, items |-> <<>>] : k \in {"network", "status", "malformed"}}

(***************************************************************************)
(* Startup                                                                 *)
(***************************************************************************)
\* how a request ended, as the startup sees it
Ended(resp) ==
    IF resp.kind # "ok" THEN resp.kind
    ELSE IF Len(resp.items) = 0 THEN "empty" ELSE "items"

Init ==
    /\ pc = "fetch_fiction"
    /\ requests = [s \in Subjects |-> 0]
    /\ ended = [s \in Subjects |-> "none"]
    /\ items = [s \in Subjects |-> <<>>]
    /\ df_fiction = <<>>
    /\ df_history = <<>>
    /\ df_all = <<>>
    /\ df = <<>>
    /\ combo_genre = <<>>
    /\ text_area = <<>>
    /\ msg = ""

\* the startup going on after a RuntimeError
AfterFetchSwallowed(raised, next) ==
    IF raised \in {"none", "RuntimeError"} THEN next ELSE "crashed"

\* lines 238-249, after a fetch_books call ended: the next statement, the
\* handler of RuntimeError, or the traceback of an uncaught exception
AfterFetch(raised, next) ==
    IF raised = "none" THEN next
    ELSE IF raised = "RuntimeError" THEN "exit_failure"
    ELSE "crashed"

\* whether requests' JSONDecodeError is a RequestException matters only for a
\* body that is not JSON
JsonErrorKinds(resp) == IF resp.kind = "malformed" THEN BOOLEAN ELSE {TRUE}

\* lines 247-249: QMessageBox.critical(None, "API Error", ...) and sys.exit(1).
\* No QApplication exists yet (line 255), and Qt ends the process when a widget
\* is made without one: the box is shown or not, the process ends either way
ApiErrorBox(raised) == IF raised = "RuntimeError" THEN {msg, "API Error"} ELSE {msg}

\* line 240
FetchFiction ==
    /\ pc = "fetch_fiction"
    /\ \E resp \in Responses : \E jsonIsRequestError \in JsonErrorKinds(resp) :
        LET r == fetch_books(resp, jsonIsRequestError)
        IN  /\ requests' = [requests EXCEPT !["Fiction"] = @ + 1]
            /\ ended' = [ended EXCEPT !["Fiction"] = Ended(resp)]
            /\ items' = [items EXCEPT !["Fiction"] = resp.items]
            /\ df_fiction' = r.frame
            /\ pc' = AfterFetch(r.raised, "fetch_history")
            /\ msg' \in ApiErrorBox(r.raised)
    /\ UNCHANGED <<df_history, df_all, df, combo_genre, text_area>>

\* line 241
FetchHistory ==
    /\ pc = "fetch_history"
    /\ \E resp \in Responses : \E jsonIsRequestError \in JsonErrorKinds(resp) :
        LET r == fetch_books(resp, jsonIsRequestError)
        IN  /\ requests' = [requests EXCEPT !["History"] = @ + 1]
            /\ ended' = [ended EXCEPT !["History"] = Ended(resp)]
            /\ items' = [items EXCEPT !["History"] = resp.items]
            /\ df_history' = r.frame
            /\ pc' = AfterFetch(r.raised, "merge")
            /\ msg' \in ApiErrorBox(r.raised)
    /\ UNCHANGED <<df_fiction, df_all, df, combo_genre, text_area>>

\* lines 243 and 253: pd.concat and drop_duplicates
Merge ==
    /\ pc = "merge"
    /\ df_all' = DropDuplicates(df_fiction \o df_history)
    /\ pc' = "window"
    /\ UNCHANGED <<requests, ended, items, df_fiction, df_history, df,
                   combo_genre, text_area, msg>>

Code(c) == CHOOSE i \in 1..Len(CodeOrder) : CodeOrder[i] = c

\* a < b for two Python strings
StrLess(a, b) ==
    \E i \in 1..(Len(a) + 1) :
        /\ i <= Len(b)
        /\ \A k \in 1..(i - 1) : a[k] = b[k]
        /\ (i = Len(a) + 1 \/ Code(a[i]) < Code(b[i]))

\* sorted(set(...))
Sorted(S) ==
    [i \in 1..Cardinality(S) |->
        CHOOSE x \in S : Cardinality({y \in S : StrLess(y, x)}) = i - 1]

\* line 123: the genre selector's items
Genres(rows) ==
    Sorted({SplitFirst(rows[i].Genre, CommaSpace) : i \in 1..Len(rows)})

\* lines 255-260: MainWindow(df_all), init_ui, show, the event loop.  Nothing
\* reads the raw items or the two subjects' frames from here on, and the model
\* lets go of them
StartWindow ==
    /\ pc = "window"
    /\ df' = df_all
    /\ combo_genre' = Genres(df_all)
    /\ text_area' = <<>>
    /\ items' = [s \in Subjects |-> <<>>]
    /\ df_fiction' = <<>>
    /\ df_history' = <<>>
    /\ pc' = "ui"
    /\ UNCHANGED <<requests, ended, df_all, msg>>

(***************************************************************************)
(* The button handlers                                                     *)
(***************************************************************************)
\* str.lower() of one character
LowerOf ==
    [c \in Range(CodeOrder) |->
        IF \E i \in 1..26 : UpperCase[i] = c
        THEN LowerCase[CHOOSE i \in 1..26 : UpperCase[i] = c]
        ELSE c]

Lower(c) == LowerOf[c]

\* re.compile(pat) succeeds.  Series.str.contains(pat, case=False) takes pat as
\* a regular expression (regex=True is its default).  Of the characters of the
\* model's genres only "(" and ")" are special: they open and close a group,
\* and a pattern whose parentheses do not balance does not compile
RegexCompiles(pat) ==
    LET depth[i \in 0..Len(pat)] ==
            IF i = 0 THEN 0
            ELSE depth[i - 1] + (IF pat[i] = "(" THEN 1
                                 ELSE IF pat[i] = ")" THEN -1 ELSE 0)
    IN  /\ \A i \in 0..Len(pat) : depth[i] >= 0
        /\ depth[Len(pat)] = 0

\* the characters a compiled pattern matches one after the other: a group
\* matches what its content matches
RegexLiterals(pat) == SelectSeq(pat, LAMBDA c : c \notin {"(", ")"})

\* re.search(pat, text, re.IGNORECASE) finds a match
RegexSearch(pat, text) ==
    LET lit == RegexLiterals(pat)
    IN  \E i \in 1..(Len(text) + 1) :
            /\ i + Len(lit) - 1 <= Len(text)
            /\ \A k \in 1..Len(lit) : Lower(text[i + k - 1]) = Lower(lit[k])

\* str.strip() of a line edit's text
RECURSIVE Strip(_)
Strip(s) ==
    IF Len(s) = 0 THEN s
    ELSE IF Head(s) = " " THEN Strip(Tail(s))
    ELSE IF s[Len(s)] = " " THEN Strip(SubSeq(s, 1, Len(s) - 1))
    ELSE s

\* int(s): <<n>>, or <<>> where int raises ValueError
IntOf(s) ==
    LET signed == Len(s) > 0 /\ s[1] \in {"+", "-"}
        digits == IF signed THEN Tail(s) ELSE s
    IN  IF ~IsDigit(digits) THEN <<>>
        ELSE IF signed /\ s[1] = "-" THEN <<-DigitsToInt(digits)>>
        ELSE <<DigitsToInt(digits)>>

\* lines 164, 169, 202, 203: int(text) if text else 0
MinOf(text) == IF Len(text) = 0 THEN <<0>> ELSE IntOf(text)

\* combo_genre.currentText(): an item of the selector, "" when it has none
CurrentTexts == IF Len(combo_genre) = 0 THEN {<<>>} ELSE Range(combo_genre)

\* what the user may have typed into the year and ratings line edits
YearTexts == {<<>>, <<" ","2","0","0","0">>, <<"2","0","x">>}

RatingsTexts == {<<>>, <<"-","1">>, <<"1",".","5">>}

\* lines 175-180: df_filtered of apply_filter
ApplyFiltered(rows, genre, min_year, min_ratings) ==
    LET byGenre == IF Len(genre) > 0
                   THEN SelectSeq(rows, LAMBDA row : RegexSearch(genre, row.Genre))
                   ELSE rows
    IN  SelectSeq(byGenre, LAMBDA row : /\ row.PublicationYear >= min_year
                                        /\ row.Ratings >= min_ratings)

\* suggest_random filtering without the year test
SuggestFilteredAnyYear(rows, genre, min_year, min_ratings) ==
    LET byGenre == IF Len(genre) > 0
                   THEN SelectSeq(rows, LAMBDA row : RegexSearch(genre, row.Genre))
                   ELSE rows
    IN  SelectSeq(byGenre, LAMBDA row : row.Ratings >= min_ratings)

\* lines 209-213: df_filtered of suggest_random
SuggestFiltered(rows, genre, min_year, min_ratings) ==
    LET byGenre == IF Len(genre) > 0
                   THEN SelectSeq(rows, LAMBDA row : RegexSearch(genre, row.Genre))
                   ELSE rows
    IN  SelectSeq(byGenre, LAMBDA row : /\ row.PublicationYear >= min_year
                                        /\ row.Ratings >= min_ratings)

NoBooksFound == << <<"No books found with these filters.">> >>

\* lines 185-186: the lines set as the text, each the pieces the code
\* concatenates: Title + " by " + Authors
TitlesText(rows) ==
    [i \in 1..Len(rows) |-> <<rows[i].Title, " by ", rows[i].Authors>>]

\* lines 219-223: the five lines of the details, each a label and a value
Details(book) ==
    << <<"Title: ", book.Title>>,
       <<"Authors: ", book.Authors>>,
       <<"Genre: ", book.Genre>>,
       <<"Published Year: ", IntToStr(book.PublicationYear)>>,
       <<"Ratings Count: ", IntToStr(book.Ratings)>> >>

\* DataFrame.sample(1): the rows one of which is drawn
SampleFrom(filtered) == Range(filtered)

\* an exception that leaves a slot: PyQt5 from 5.5 on aborts the process, and
\* before 5.5 prints the traceback and returns to the event loop
SlotRaised == {"aborted", "ui"}

\* a handler keeping the filtered frame as self.df
SelfDfNarrowed(rows, df_filtered) == df_filtered

\* lines 175-180 and 209-213: both handlers filter self.df.copy() into the
\* local df_filtered, and assign nothing to self.df
SelfDfAfter(rows, df_filtered) == rows

\* lines 158-186, with the selector at genre and the line edits at year_in and
\* ratings_in
apply_filter(genre, year_in, ratings_in) ==
    LET min_year    == MinOf(Strip(year_in))
        min_ratings == MinOf(Strip(ratings_in))
    IN  /\ pc = "ui"
        /\ IF Len(min_year) = 0
           THEN /\ msg' = "Year must be an integer."
                /\ UNCHANGED <<pc, text_area, df>>
           ELSE IF Len(min_ratings) = 0
           THEN /\ msg' = "Ratings must be an integer."
                /\ UNCHANGED <<pc, text_area, df>>
           ELSE IF Len(genre) > 0 /\ ~RegexCompiles(genre)
           THEN /\ pc' \in SlotRaised
                /\ UNCHANGED <<msg, text_area, df>>
           ELSE LET df_filtered ==
                        ApplyFiltered(df, genre, min_year[1], min_ratings[1])
                IN  /\ text_area' = IF Len(df_filtered) = 0 THEN NoBooksFound
                                    ELSE TitlesText(df_filtered)
                    /\ df' = SelfDfAfter(df, df_filtered)
                    /\ UNCHANGED <<pc, msg>>
        /\ UNCHANGED <<requests, ended, items, df_fiction, df_history, df_all,
                       combo_genre>>

\* lines 196-224
suggest_random(genre, year_in, ratings_in) ==
    LET min_year    == MinOf(Strip(year_in))
        min_ratings == MinOf(Strip(ratings_in))
    IN  /\ pc = "ui"
        /\ IF Len(min_year) = 0 \/ Len(min_ratings) = 0
           THEN /\ msg' = "Year and Ratings must be integers."
                /\ UNCHANGED <<pc, text_area, df>>
           ELSE IF Len(genre) > 0 /\ ~RegexCompiles(genre)
           THEN /\ pc' \in SlotRaised
                /\ UNCHANGED <<msg, text_area, df>>
           ELSE LET df_filtered ==
                        SuggestFiltered(df, genre, min_year[1], min_ratings[1])
                IN  /\ IF Len(df_filtered) = 0
                       THEN /\ msg' = "No books match the criteria."
                            /\ UNCHANGED <<pc, text_area>>
                       ELSE /\ \E book \in SampleFrom(df_filtered) :
                                   text_area' = Details(book)
                            /\ UNCHANGED <<pc, msg>>
                    /\ df' = SelfDfAfter(df, df_filtered)
        /\ UNCHANGED <<requests, ended, items, df_fiction, df_history, df_all,
                       combo_genre>>

ApplyFilter ==
    \E genre \in CurrentTexts, year_in \in YearTexts, ratings_in \in RatingsTexts :
        apply_filter(genre, year_in, ratings_in)

SuggestRandom ==
    \E genre \in CurrentTexts, year_in \in YearTexts, ratings_in \in RatingsTexts :
        suggest_random(genre, year_in, ratings_in)

Next ==
    \/ FetchFiction
    \/ FetchHistory
    \/ Merge
    \/ StartWindow
    \/ ApplyFilter
    \/ SuggestRandom

Spec == Init /\ [][Next]_vars

(***************************************************************************)
(* Properties                                                              *)
(***************************************************************************)
SameKey(a, b) == a.Title = b.Title /\ a.Authors = b.Authors

NoDuplicateKeys(rows) ==
    \A i, j \in 1..Len(rows) : i < j => ~SameKey(rows[i], rows[j])

\* the index in rows of the first row with the key of row
FirstAt(rows, row) ==
    CHOOSE k \in 1..Len(rows) :
        SameKey(rows[k], row) /\ \A j \in 1..(k - 1) : ~SameKey(rows[j], row)

\* the rows of all raw items received, in fetch order
RawRows == Books(items["Fiction"] \o items["History"])

\* C1: the Dataset handed to the window has no two records with the same
\* (Title, Authors); each of its records is the first raw occurrence of its pair
\* in fetch order (Fiction's items, then History's); every pair of the raw items
\* with a title is kept; and the records are in the order of those occurrences.
C1_DatasetKeepsFirstOccurrences ==
    /\ pc = "window" =>
        /\ NoDuplicateKeys(df_all)
        /\ \A i \in 1..Len(df_all) :
            /\ \E k \in 1..Len(RawRows) : SameKey(RawRows[k], df_all[i])
            /\ df_all[i] = RawRows[FirstAt(RawRows, df_all[i])]
        /\ \A i, j \in 1..Len(df_all) :
            i < j => FirstAt(RawRows, df_all[i]) < FirstAt(RawRows, df_all[j])
        /\ \A k \in 1..Len(RawRows) :
            RawRows[k].Title # UnknownTitle
                => \E i \in 1..Len(df_all) : SameKey(df_all[i], RawRows[k])
    /\ pc \in {"ui", "aborted"} => NoDuplicateKeys(df)

\* C1's case: a pair fetched twice within the Fiction response with different
\* data, and a pair of the History response already fetched for Fiction.
C1_Witness ==
    LET fiction == Books(items["Fiction"])
        history == Books(items["History"])
    IN  /\ pc = "window"
        /\ Len(df_all) >= 2
        /\ \E i, j \in 1..Len(fiction) :
            i < j /\ SameKey(fiction[i], fiction[j]) /\ fiction[i] # fiction[j]
        /\ \E i \in 1..Len(fiction), j \in 1..Len(history) :
            SameKey(fiction[i], history[j]) /\ fiction[i] # history[j]

Frames == {df_fiction, df_history, df_all, df}

\* C2: every record fetch_books returns, and every record of the Dataset, has
\* Publication Year >= 0 and Ratings >= 0.
C2_YearAndRatingsNonNegative ==
    \A rows \in Frames : \A i \in 1..Len(rows) :
        rows[i].PublicationYear >= 0 /\ rows[i].Ratings >= 0

\* text contains sub as a substring, letter case ignored
ContainsIgnoreCase(text, sub) ==
    \E i \in 1..(Len(text) + 1) :
        /\ i + Len(sub) - 1 <= Len(text)
        /\ \A k \in 1..Len(sub) : Lower(text[i + k - 1]) = Lower(sub[k])

\* the filter as C3 states it
SubstringFiltered(rows, genre, min_year, min_ratings) ==
    SelectSeq(rows, LAMBDA row :
        /\ (Len(genre) = 0 \/ ContainsIgnoreCase(row.Genre, genre))
        /\ row.PublicationYear >= min_year
        /\ row.Ratings >= min_ratings)

\* the thresholds the line edits' texts stand for
Mins(texts) == {MinOf(Strip(t))[1] : t \in {u \in texts : Len(MinOf(Strip(u))) > 0}}

\* C3: for every genre the selector offers and all integer thresholds,
\* apply_filter's filter holds exactly the Dataset's records whose Genre
\* contains the genre as a case-insensitive substring (any record for the empty
\* genre) with Publication Year >= minYear and Ratings >= minRatings, in the
\* Dataset's order.
C3_FilterIsSubstringMatch ==
    pc = "ui" =>
        \A genre \in CurrentTexts, min_year \in Mins(YearTexts),
           min_ratings \in Mins(RatingsTexts) :
            /\ Len(genre) = 0 \/ RegexCompiles(genre)
            /\ ApplyFiltered(df, genre, min_year, min_ratings)
                 = SubstringFiltered(df, genre, min_year, min_ratings)

\* C4: the filter with the empty genre, minYear 0 and minRatings 0 is the whole
\* Dataset in its order.
C4_IdentityFilter == pc = "ui" => ApplyFiltered(df, <<>>, 0, 0) = df

InvalidInput(year_in, ratings_in) ==
    Len(MinOf(Strip(year_in))) = 0 \/ Len(MinOf(Strip(ratings_in))) = 0

\* C5: a suggest_random call with integer inputs shows the details of a record
\* of apply_filter's filter for the same genre and thresholds; when that filter
\* is empty it shows the "No books match the criteria." box and leaves the text.
C5_SuggestionComesFromFilter ==
    [][\A genre \in CurrentTexts, year_in \in YearTexts, ratings_in \in RatingsTexts :
        (/\ pc = "ui"
         /\ ~InvalidInput(year_in, ratings_in)
         /\ (Len(genre) = 0 \/ RegexCompiles(genre))
         /\ suggest_random(genre, year_in, ratings_in))
        => LET filtered == ApplyFiltered(df, genre, MinOf(Strip(year_in))[1],
                                         MinOf(Strip(ratings_in))[1])
           IN  IF Len(filtered) = 0
               THEN msg' = "No books match the criteria." /\ text_area' = text_area
               ELSE \E book \in Range(filtered) : text_area' = Details(book)]_vars

\* C5's case: a record's details on show, and a later call that matched nothing.
C5_Witness ==
    /\ pc = "ui"
    /\ msg = "No books match the criteria."
    /\ Len(df) >= 2
    /\ \E book \in Range(df) : text_area = Details(book)

FailureKinds == {"network", "status", "malformed"}

\* C6: no subject is requested twice; once a subject's fetch has failed the
\* process has ended in failure with no Dataset built and no window, and after
\* a failed Fiction fetch History was never requested.
C6_FailedFetchEndsStartup ==
    /\ \A s \in Subjects : requests[s] <= 1
    /\ \A s \in Subjects :
        ended[s] \in FailureKinds =>
            /\ pc \in {"exit_failure", "crashed"}
            /\ requests[s] = 1
            /\ df_all = <<>> /\ df = <<>> /\ combo_genre = <<>>
            /\ s = "Fiction" => requests["History"] = 0 /\ ended["History"] = "none"

\* C6's case: Fiction fetched with books, then the History fetch failed.
C6_Witness ==
    /\ ended["History"] \in FailureKinds
    /\ Len(df_fiction) > 0
    /\ pc \in {"exit_failure", "crashed"}

Warnings ==
    {"Year must be an integer.", "Ratings must be an integer.",
     "Year and Ratings must be integers."}

\* C7: once the window is up no step changes self.df, which stays the Dataset
\* the window was given; a handler call with a non-integer year or ratings text
\* shows a warning and leaves the result text as it was.
C7_HandlersLeaveDatasetAlone ==
    [][/\ pc = "ui" => df' = df /\ df' = df_all'
       /\ \A genre \in CurrentTexts, year_in \in YearTexts, ratings_in \in RatingsTexts :
            (/\ pc = "ui"
             /\ InvalidInput(year_in, ratings_in)
             /\ apply_filter(genre, year_in, ratings_in)
                    \/ suggest_random(genre, year_in, ratings_in))
            => /\ msg' \in Warnings
               /\ text_area' = text_area
               /\ df' = df]_vars

\* C7's case: a filter that narrowed the Dataset is on show, and a later call
\* was refused for its input.
C7_Witness ==
    /\ pc = "ui"
    /\ msg \in Warnings
    /\ Len(df) >= 2
    /\ \E genre \in CurrentTexts, min_year \in Mins(YearTexts) :
        /\ Len(genre) = 0 \/ RegexCompiles(genre)
        /\ Len(ApplyFiltered(df, genre, min_year, 0)) \in 1..(Len(df) - 1)
        /\ text_area = TitlesText(ApplyFiltered(df, genre, min_year, 0))

\* the authors and genre C8 states for a raw item
ClaimedAuthors(item) ==
    LET names == Get(VolumeInfo(item).authors, <<>>)
    IN  IF Len(names) = 0 THEN UnknownAuthor ELSE Join(CommaSpace, names)

ClaimedGenre(item) ==
    LET labels == Get(VolumeInfo(item).categories, <<>>)
    IN  IF Len(labels) = 0 THEN Uncategorized ELSE Join(CommaSpace, labels)

\* C8: the row of every raw item has the item's author names joined with ", ",
\* "Unknown Author" when the list is absent or empty, and likewise its category
\* labels, "Uncategorized" when absent or empty; no record kept has an empty
\* Authors or Genre.
C8_AuthorsAndGenreFallbacks ==
    /\ \A s \in Subjects : \A i \in 1..Len(items[s]) :
        /\ BookOf(items[s][i]).Authors = ClaimedAuthors(items[s][i])
        /\ BookOf(items[s][i]).Genre = ClaimedGenre(items[s][i])
    /\ \A rows \in Frames : \A i \in 1..Len(rows) :
        Len(rows[i].Authors) > 0 /\ Len(rows[i].Genre) > 0

\* C9: once a response has carried no items the process has crashed, with no
\* Dataset built and no window.
C9_EmptyResponseIsFatal ==
    \A s \in Subjects :
        ended[s] = "empty" =>
            /\ pc = "crashed"
            /\ df_all = <<>> /\ df = <<>> /\ combo_genre = <<>>

\* C9's case: the first response carried no items, so that nothing was fetched.
C9_Witness ==
    /\ ended["Fiction"] = "empty"
    /\ requests["History"] = 0
    /\ pc = "crashed"

\* C10: every genre the selector offers, with the year and ratings fields left
\* empty, selects at least one book in apply_filter and in suggest_random.
C10_OfferedGenreSelectsBook ==
    pc = "ui" =>
        \A genre \in Range(combo_genre) :
            /\ Len(genre) = 0 \/ RegexCompiles(genre)
            /\ Len(ApplyFiltered(df, genre, 0, 0)) > 0
            /\ Len(SuggestFiltered(df, genre, 0, 0)) > 0

====
